---- MODULE Spec2Model ----
(***************************************************************************)
(* Model of the Motia development-server coordinator                       *)
(* (src/src/utilities/serverManager.ts, class ServerManager).              *)
(*                                                                         *)
(* The static fields of ServerManager are the shared variables.  Every     *)
(* call of startServer / stopServer is an asynchronous task on one event   *)
(* loop: an action of the model is the code that runs from one suspension  *)
(* point (await, setTimeout) to the next, so the interleavings of the      *)
(* model are the interleavings the event loop can produce.                 *)
(*                                                                         *)
(* Time is in milliseconds and advances in steps of checkInterval.  The    *)
(* code reads the clock only in the difference                             *)
(* Date.now() - this._serverStartTime, so the model keeps that difference  *)
(* (startAge) and, for every pending timer or probe, the time since it     *)
(* was set (clock).  A timer fires when it is due and a probe settles no   *)
(* later than its own timeout: Tick is disabled while one is overdue.      *)
(*                                                                         *)
(* Spec is the coordinator under its callers.  SpecQueries adds a reader   *)
(* that calls isServerRunning and getServerStatus at any time.  SpecProbe  *)
(* is one connection attempt of checkIfServerRunning, SpecDetect is        *)
(* isMotiaProject on every small workspace, SpecExtension is the           *)
(* extension from activate to deactivate, and SpecMenu is the user working *)
(* through the service menu and the workbench command.  SpecWorkbench adds *)
(* the starts without extensionUri that the webview makes, SpecPanel is    *)
(* the workbench panel under interleaved createOrShow calls, and           *)
(* SpecStatusBar is the status bar item with its periodic status check.    *)
(***************************************************************************)
EXTENDS Integers, FiniteSets, Sequences, TLC

VARIABLES
  calls,       \* the startServer / stopServer calls issued so far
  terminal,    \* ServerManager._terminal (0 = undefined)
  isRunning,   \* ServerManager._isRunning
  serverPort,  \* ServerManager._serverPort
  startAge,    \* Date.now() - ServerManager._serverStartTime
  terminals,   \* per terminal: "none" (not created), "live" or "disposed"
  sent,        \* per terminal, the number of command lines sent with sendText
  config,      \* vscode.workspace.getConfiguration('motia'): the settings
  query,       \* the isServerRunning / getServerStatus call of a reader
  attempt,     \* one connection attempt of the reachability probe, seen from both revisions
  detect,      \* the workspace given to isMotiaProject and what it returned
  ext,         \* the extension: activation, registered commands, menu, teardown
  panel,       \* WorkbenchPanel.currentPanel, the webview panels and the createOrShow calls
  bar          \* the status bar indicator and its periodic refresh

vars == <<calls, terminal, isRunning, serverPort, startAge, terminals, sent, config, query,
          attempt, detect, ext, panel, bar>>

\* the variables the coordinator and its readers never touch
aside == <<attempt, detect, ext, panel, bar>>

(* ------------------------------ bounds -------------------------------- *)

\* number of startServer / stopServer calls issued in one behaviour
MaxCalls == 2

\* number of folders of the workspace
MaxFolders == 2

\* number of WorkbenchPanel.createOrShow calls in one behaviour
MaxShows == 3

\* the period of the status check in steps of checkInterval (20 in the code)
RefreshTicks == 4
\* ServerManager._maxStartupTime (30000 ms in the source, line 17), scaled
\* down to two poll intervals
maxStartupTime == 1000

(* ------------------------- program constants -------------------------- *)

\* const checkInterval = 500
checkInterval == 500
\* options.timeout of the probe's http request
probeTimeout == 1000
\* private static _serverPort = 3000, and the default of config.get
defaultPort == 3000
\* another value of the motia.serverPort setting
otherPort == defaultPort + 1

Ports == {defaultPort, otherPort}
Calls == 1 .. MaxCalls

\* values of the motia.nodejsPath setting: empty (the default) or a path.
\* The setting is read once per startServer call (line 46, and by the validator
\* in the same turn), so it is an input of the call
NodejsPaths == {"", "/opt/node/bin"}
\* the settings that are read at different times
Configs == [serverPort : Ports]

\* what one connection attempt of a probe can end in
Outcomes == {"status200", "statusOther", "error", "timeout"}

Min(a, b) == IF a < b THEN a ELSE b

\* ages beyond the deadline are not told apart
AgeCap == maxStartupTime + checkInterval
\* the longest time from launch to settlement that is told apart (elapsed is
\* kept for a call that no other call overlaps)
ElapsedCap == maxStartupTime + 2 * checkInterval + probeTimeout

(* --------------------------- pure functions --------------------------- *)

\* checkIfServerRunning: the result the promise resolves with
checkIfServerRunning(outcome) == outcome = "status200"

\* validateNodejsPath: nodejsPath is the setting as read by the validator,
\* exists is fs.existsSync(nodejsPath), versionOk is whether
\* `node --version` ran and printed a version
validateNodejsPath(nodejsPath, exists, versionOk) ==
  IF nodejsPath = "" THEN TRUE
  ELSE IF ~exists THEN FALSE
  ELSE versionOk

(* ------------------------------- calls -------------------------------- *)

NoCall ==
  [kind |-> "none", pc |-> "init", outcome |-> "pending", error |-> "",
   nodejsPath |-> "", command |-> 0, probePort |-> 0, clock |-> 0,
   \* startServer was given an extensionUri; the number of
   \* setTimeout(() => WorkbenchPanel.createOrShow(extensionUri)) it has made
   extensionUri |-> FALSE, opens |-> 0,
   \* the local isRunning / isStillRunning: the result of the call's last probe
   lastProbe |-> "none", warned |-> FALSE,
   \* history of the call, read by the properties only
   overlapped |-> FALSE, stopDuring |-> FALSE, stopMidPoll |-> FALSE,
   wasRunning |-> FALSE, hadTerminal |-> FALSE, launched |-> FALSE, elapsed |-> 0,
   \* a poll of the call found nothing and the next was scheduled (kept, like
   \* elapsed, for a call that no other call overlaps)
   repolled |-> FALSE]

InFlight(c) == calls[c].kind # "none" /\ calls[c].outcome = "pending"
Settled(c) == calls[c].outcome # "pending"
Issued(c) == calls[c].kind # "none"

\* a timer or a probe of call c is pending
Waiting(c) == calls[c].pc \in {"timer", "probe", "poll", "stopProbe"}

\* the next call to be issued: calls are numbered in the order of issue
NextCall(c) == ~Issued(c) /\ \A d \in Calls : d < c => Issued(d)

\* this.checkIfServerRunning(port): the request is sent now
IssueProbe(r, port) == [r EXCEPT !.probePort = port, !.clock = 0]

\* the probe of a call has settled with outcome o: the awaited value
ProbeSettled(r, o) ==
  [r EXCEPT !.lastProbe = IF checkIfServerRunning(o) THEN "reachable" ELSE "unreachable",
            !.probePort = 0, !.clock = 0]

\* a probe issued by call c can end with outcome o now
ProbeCanEnd(c, o) ==
  IF o = "timeout" THEN calls[c].clock = probeTimeout
  ELSE calls[c].clock <= probeTimeout

\* resolve(...) / reject(...) of the promise of a call
Resolve(r) ==
  [r EXCEPT !.pc = "done", !.outcome = "resolved", !.nodejsPath = "", !.command = 0,
            !.probePort = 0, !.clock = 0]
Reject(r, e) ==
  [r EXCEPT !.pc = "done", !.outcome = "rejected", !.error = e, !.nodejsPath = "",
            !.command = 0, !.probePort = 0, !.clock = 0]

\* the workbench scheduled for every successful start, with or without extensionUri
ScheduleWorkbenchAlways(r) == [r EXCEPT !.opens = @ + 1]

\* lines 64-69 and 129-134: if (extensionUri) setTimeout(() => createOrShow(...))
ScheduleWorkbench(r) == [r EXCEPT !.opens = IF r.extensionUri THEN @ + 1 ELSE @]

\* the bookkeeping of a new call c with record r: every call in flight now
\* overlaps it, and a stop marks the starts it interrupts
Begin(c, r) ==
  [d \in Calls |->
     IF d = c THEN [r EXCEPT !.overlapped = \E e \in Calls : InFlight(e)]
     ELSE IF InFlight(d)
       THEN [calls[d] EXCEPT
               !.overlapped = TRUE, !.repolled = FALSE,
               !.stopDuring = @ \/ (r.kind = "stop" /\ calls[d].kind = "start"),
               !.stopMidPoll = @ \/ (r.kind = "stop" /\ calls[d].pc \in {"timer", "poll"})]
       ELSE calls[d]]

\* the reader's call: op is the method called, pc is "probe" while the probe
\* of isServerRunning is pending and "returned" once the call has returned result
NoQuery ==
  [op |-> "none", pc |-> "idle", probePort |-> 0, clock |-> 0,
   \* what the probe of the call found, and the value the call returned
   lastProbe |-> "none", result |-> FALSE]

\* what 127.0.0.1:port does with one connection attempt: nothing is listening
\* ("refused"), the attempt is never answered ("dropped"), or the connection is
\* accepted and the server then answers 200 or another status, stays silent,
\* or closes the connection without an answer
Connections == {"refused", "dropped", "ok200", "okOther", "silent", "reset"}
Accepting == {"ok200", "okOther", "silent", "reset"}

\* res.statusCode of the answer, for the connections that are answered
statusCode(conn) == IF conn = "ok200" THEN 200 ELSE 404

\* resolve(v) on a promise in state p: only the first call settles it
resolve(p, v) == IF p = "pending" THEN v ELSE p

NoAttempt ==
  [pc |-> "idle", port |-> 0, conn |-> "none", clock |-> 0,
   accepted |-> FALSE, answered |-> FALSE, timedOut |-> FALSE, failed |-> FALSE,
   \* the promise of checkIfServerRunning in the current (HTTP) revision and
   \* in the earlier (TCP connect) revision
   http |-> "none", tcp |-> "none"]

NoDetect == [folders |-> <<>>, pc |-> "idle", result |-> FALSE]

\* the createOrShow calls; a webview panel is named after the call that created it
Shows == 1 .. MaxShows

\* a createOrShow call: pc is "none" (not called), "update" (awaiting _update),
\* "done" or "threw"; target is the panel it updates
NoShow == [pc |-> "none", target |-> 0, created |-> FALSE]

NoPanel ==
  [currentPanel |-> 0,                        \* WorkbenchPanel.currentPanel (0 = undefined)
   panels |-> [p \in Shows |-> "none"],        \* per panel: "none", "open" or "disposed"
   shows |-> [k \in Shows |-> NoShow]]

\* part_001 55-62: setInterval(..., 10000), scaled like maxStartupTime
statusInterval == RefreshTicks * checkInterval

\* the longest time the model keeps since the last write of a command handler
\* or change of the port
QuietCap == statusInterval + probeTimeout + checkInterval

\* part_001 13-23: what updateStatusBarItem(running) makes the indicator show
updateStatusBarItem(running) == IF running THEN "running" ELSE "stopped"

NoBar ==
  [\* "off" (no status bar item), "idle", or "probe" while the isServerRunning
   \* of the status check is awaited
   pc |-> "off",
   indicator |-> "stopped",   \* the text of the item: '$(check)' or '$(tools)'
   timer |-> 0,               \* time since the interval timer was last due
   clock |-> 0,               \* time since the probe was sent
   reachable |-> FALSE,       \* whether the port answers now
   saw |-> {},                \* what the port did while the probe was in flight
   quiet |-> 0]               \* time since a handler wrote or the port changed

NoExt ==
  [\* activate: "inactive", "autostart" (awaiting the automatic start), "active"
   pc |-> "inactive",
   isMotia |-> FALSE,          \* what isMotiaProject returned to activate
   registered |-> FALSE,       \* the commands are registered
   autoStartServer |-> FALSE,  \* the autoStartServer setting as activate read it
   autoStarts |-> 0,           \* startServer calls made by activate itself
   autoCall |-> 0,             \* the call activate awaits
   deactivated |-> FALSE,      \* deactivate has run
   stopCall |-> 0,             \* the stopServer call deactivate made
   \* motia.showServiceMenu: "closed", "probe" (awaiting isServerRunning),
   \* "shown" (the quick pick is open with menuItems)
   menu |-> "closed",
   menuItems |-> {},
   \* motia.openWorkbench: "idle", "probe" (awaiting isServerRunning),
   \* "prompt" (Start Server / Open Anyway), "starting" (awaiting wbCall)
   workbench |-> "idle",
   wbCall |-> 0,
   \* how the last openWorkbench called WorkbenchPanel.createOrShow:
   \* "no", "direct", "anyway", "afterFailure"
   opened |-> "no"]

(* ------------------------------ actions ------------------------------- *)

InitCoordinator ==
  /\ calls = [c \in Calls |-> NoCall]
  /\ terminal = 0
  /\ isRunning = FALSE
  /\ serverPort = defaultPort
  /\ startAge = AgeCap
  /\ terminals = [t \in Calls |-> "none"]
  /\ sent = [t \in Calls |-> 0]
  /\ config \in Configs
  /\ query = NoQuery

Init ==
  /\ InitCoordinator
  /\ attempt = NoAttempt
  /\ detect = NoDetect
  /\ ext = NoExt
  /\ panel = NoPanel
  /\ bar = NoBar

\* the user edits the settings
SetConfig ==
  /\ \E cfg \in Configs : cfg # config /\ config' = cfg
  /\ UNCHANGED <<calls, terminal, isRunning, serverPort, startAge, terminals, sent, query, aside>>

\* startServer, lines 41-58: the executor runs synchronously up to its first await
startServer(c, extensionUri) ==
  /\ NextCall(c)
  /\ serverPort' = config.serverPort
  /\ \E nodejsPath \in NodejsPaths :
       LET r0 == [NoCall EXCEPT !.kind = "start", !.nodejsPath = nodejsPath,
                               !.extensionUri = extensionUri]
           r1 == IF nodejsPath # ""
                 THEN [r0 EXCEPT !.pc = "validate"]
                 ELSE [IssueProbe(r0, config.serverPort) EXCEPT !.pc = "probe"]
       IN calls' = Begin(c, r1)
  /\ UNCHANGED <<terminal, isRunning, startAge, terminals, sent, config, query>>

\* startServer(context.extensionUri) called by the motia.startServer command
\* (extension.ts 83-103) while nothing else of the extension changes
StartServer(c) == startServer(c, TRUE) /\ UNCHANGED aside

\* ValidateDone resetting the cached state to Idle when it rejects
ValidateDoneResetsState(c) ==
  /\ calls[c].pc = "validate"
  /\ \E exists \in BOOLEAN, versionOk \in BOOLEAN :
       IF validateNodejsPath(calls[c].nodejsPath, exists, versionOk)
       THEN /\ calls' = [calls EXCEPT ![c] = [IssueProbe(@, serverPort) EXCEPT !.pc = "probe"]]
            /\ isRunning' = isRunning
       ELSE /\ calls' = [calls EXCEPT ![c] = Reject(@, "InvalidConfig")]
            /\ isRunning' = FALSE
  /\ UNCHANGED <<terminal, serverPort, startAge, terminals, sent, config, query, aside>>

\* validateNodejsPath has settled (lines 49-55); when valid, the initial probe is sent (line 58).
\* The validator reads the setting and the file system before its first
\* await, in the turn of the event loop that read nodejsPath at line 46
ValidateDone(c) ==
  /\ calls[c].pc = "validate"
  /\ \E exists \in BOOLEAN, versionOk \in BOOLEAN :
       IF validateNodejsPath(calls[c].nodejsPath, exists, versionOk)
       THEN calls' = [calls EXCEPT ![c] = [IssueProbe(@, serverPort) EXCEPT !.pc = "probe"]]
       ELSE calls' = [calls EXCEPT ![c] = Reject(@, "InvalidConfig")]
  /\ UNCHANGED <<terminal, isRunning, serverPort, startAge, terminals, sent, config, query, aside>>

\* lines 96-103: sendText, show, record the start time, schedule the first poll.
\* this._terminal is read again here: when a stopServer has cleared it the call
\* throws a TypeError inside the async executor and the promise never settles
Launch(c, r) ==
  IF terminal' = 0
  THEN /\ calls' = [calls EXCEPT ![c] = [r EXCEPT !.pc = "crashed", !.nodejsPath = "", !.command = 0]]
       /\ UNCHANGED <<sent, startAge>>
  ELSE /\ sent' = [sent EXCEPT ![terminal'] = @ + 1]
       /\ startAge' = 0
       /\ calls' = [calls EXCEPT ![c] = [r EXCEPT !.pc = "timer", !.clock = 0, !.launched = TRUE,
                                                   !.nodejsPath = "", !.command = 0]]

\* Adopt without its return: the call resolves and goes on to create a terminal
AdoptFallsThrough(c, o) ==
  /\ isRunning' = TRUE
  /\ calls' = [calls EXCEPT ![c] = Resolve(ScheduleWorkbench(ProbeSettled(@, o)))]
  /\ terminal' = c
  /\ terminals' = [terminals EXCEPT ![c] = "live"]
  /\ UNCHANGED <<startAge, sent>>

\* lines 59-73: the port answers already, nothing is launched
Adopt(c, o) ==
  /\ isRunning' = TRUE
  /\ calls' = [calls EXCEPT ![c] = Resolve(ScheduleWorkbench(ProbeSettled(@, o)))]
  /\ UNCHANGED <<terminal, startAge, terminals, sent>>

\* lines 75-83: a new terminal replaces this._terminal, the command line is
\* built from the current this._serverPort; with a custom Node.js path the
\* command is sent at once, otherwise commandExists('npx') is awaited
CreateTerminal(c, o) ==
  /\ terminal' = c
  /\ terminals' = [terminals EXCEPT ![c] = "live"]
  /\ isRunning' = isRunning
  /\ LET r == [ProbeSettled(calls[c], o) EXCEPT !.command = serverPort]
     IN IF r.nodejsPath # ""
        THEN Launch(c, r)
        ELSE /\ calls' = [calls EXCEPT ![c] = [r EXCEPT !.pc = "npx"]]
             /\ UNCHANGED <<sent, startAge>>

\* the initial probe of startServer has settled (line 58)
InitialProbeDone(c) ==
  /\ calls[c].pc = "probe"
  /\ \E o \in Outcomes :
       /\ ProbeCanEnd(c, o)
       /\ IF checkIfServerRunning(o) THEN Adopt(c, o) ELSE CreateTerminal(c, o)
  /\ UNCHANGED <<serverPort, config, query, aside>>

\* lines 90-93: no package manager was found
NoLauncher(c) ==
  /\ calls' = [calls EXCEPT ![c] = Reject(@, "NoLauncher")]
  /\ UNCHANGED <<sent, startAge>>

\* commandExists(npx | pnpm | yarn) has settled (lines 83-94)
CommandExistsDone(c) ==
  /\ calls[c].pc \in {"npx", "pnpm", "yarn"}
  /\ terminal' = terminal
  /\ \E found \in BOOLEAN :
       IF found THEN Launch(c, calls[c])
       ELSE IF calls[c].pc = "yarn" THEN NoLauncher(c)
       ELSE /\ calls' = [calls EXCEPT ![c].pc = IF @ = "npx" THEN "pnpm" ELSE "yarn"]
            /\ UNCHANGED <<sent, startAge>>
  /\ UNCHANGED <<isRunning, serverPort, terminals, config, query, aside>>

\* the timer firing as soon as it is set, without waiting for checkInterval
TimerFiresAtOnce(c) ==
  /\ calls[c].pc = "timer"
  /\ calls' = [calls EXCEPT ![c] = [IssueProbe(@, serverPort) EXCEPT !.pc = "poll"]]
  /\ UNCHANGED <<terminal, isRunning, serverPort, startAge, terminals, sent, config, query, aside>>

\* setTimeout(checkServer, checkInterval) fires: checkServer sends its probe (line 121)
TimerFires(c) ==
  /\ calls[c].pc = "timer"
  /\ calls[c].clock >= checkInterval
  /\ calls' = [calls EXCEPT ![c] = [IssueProbe(@, serverPort) EXCEPT !.pc = "poll"]]
  /\ UNCHANGED <<terminal, isRunning, serverPort, startAge, terminals, sent, config, query, aside>>

\* line 141: the deadline test of checkServer
TimedOut == startAge > maxStartupTime

\* PollSuccess without its return: the call resolves and the next poll is scheduled
PollSuccessReschedules(c, o) ==
  /\ isRunning' = TRUE
  /\ calls' = [calls EXCEPT ![c] = [Resolve(ScheduleWorkbench(ProbeSettled(@, o)))
                                     EXCEPT !.pc = "timer"]]

\* lines 123-138: the poll found the server
PollSuccess(c, o) ==
  /\ isRunning' = TRUE
  /\ calls' = [calls EXCEPT ![c] = Resolve(ScheduleWorkbench(ProbeSettled(@, o)))]

\* line 149: setTimeout(checkServer, checkInterval) after a poll that found nothing
Repoll(r) == [r EXCEPT !.pc = "timer", !.repolled = @ \/ ~r.overlapped]

\* PollFailure without `this._isRunning = false`
PollFailureKeepsState(c, o) ==
  /\ isRunning' = isRunning
  /\ IF TimedOut
     THEN calls' = [calls EXCEPT ![c] = Reject(ProbeSettled(@, o), "Timeout")]
     ELSE calls' = [calls EXCEPT ![c] = Repoll(ProbeSettled(@, o))]

\* lines 140-149: the poll did not find the server
PollFailure(c, o) ==
  IF TimedOut
  THEN /\ isRunning' = FALSE
       /\ calls' = [calls EXCEPT ![c] = Reject(ProbeSettled(@, o), "Timeout")]
  ELSE /\ isRunning' = isRunning
       /\ calls' = [calls EXCEPT ![c] = Repoll(ProbeSettled(@, o))]

\* the probe of checkServer has settled (lines 121-149)
PollProbeDone(c) ==
  /\ calls[c].pc = "poll"
  /\ \E o \in Outcomes :
       /\ ProbeCanEnd(c, o)
       /\ IF checkIfServerRunning(o) THEN PollSuccess(c, o) ELSE PollFailure(c, o)
  /\ UNCHANGED <<terminal, serverPort, startAge, terminals, sent, config, query, aside>>

\* DisposeTerminal without `this._terminal = undefined`
DisposeKeepsReference ==
  IF terminal # 0
  THEN /\ terminals' = [terminals EXCEPT ![terminal] = "disposed"]
       /\ terminal' = terminal
       /\ isRunning' = FALSE
  ELSE UNCHANGED <<terminals, terminal, isRunning>>

\* lines 166-173: dispose the owned terminal, if any
DisposeTerminal ==
  IF terminal # 0
  THEN /\ terminals' = [terminals EXCEPT ![terminal] = "disposed"]
       /\ terminal' = 0
       /\ isRunning' = FALSE
  ELSE UNCHANGED <<terminals, terminal, isRunning>>

\* StopServer reading the port from the settings again before its probe
StopServerRereadsPort(c) ==
  /\ NextCall(c)
  /\ DisposeTerminal
  /\ serverPort' = config.serverPort
  /\ LET r0 == [NoCall EXCEPT !.kind = "stop", !.pc = "stopProbe",
                              !.wasRunning = isRunning, !.hadTerminal = terminal # 0]
     IN calls' = Begin(c, IssueProbe(r0, config.serverPort))
  /\ UNCHANGED <<startAge, sent, config, query, aside>>

\* stopServer, lines 165-176: synchronous up to the await of its probe
stopServer(c) ==
  /\ NextCall(c)
  /\ DisposeTerminal
  /\ LET r0 == [NoCall EXCEPT !.kind = "stop", !.pc = "stopProbe",
                              !.wasRunning = isRunning, !.hadTerminal = terminal # 0]
     IN calls' = Begin(c, IssueProbe(r0, serverPort))
  /\ UNCHANGED <<serverPort, startAge, sent, config, query>>

\* stopServer called while nothing else of the extension changes
StopServer(c) == stopServer(c) /\ UNCHANGED aside

\* StopSettle treating a still reachable port as a failure of the stop
StopSettleRejects(r) ==
  IF r.lastProbe = "reachable"
  THEN [Reject(r, "StillReachable") EXCEPT !.warned = TRUE]
  ELSE Resolve(r)

\* lines 177-183: a reachable port after the stop is a warning, and the call resolves
StopSettle(r) == [Resolve(r) EXCEPT !.warned = r.lastProbe = "reachable"]

\* lines 176-183: the probe of stopServer has settled
StopProbeDone(c) ==
  /\ calls[c].pc = "stopProbe"
  /\ \E o \in Outcomes :
       /\ ProbeCanEnd(c, o)
       /\ calls' = [calls EXCEPT ![c] = StopSettle(ProbeSettled(@, o))]
  /\ UNCHANGED <<terminal, isRunning, serverPort, startAge, terminals, sent, config, query, aside>>

\* the clock advances by checkInterval, unless a timer is due or a probe has
\* reached its timeout (the clock is left alone while nothing is pending)
Tick ==
  /\ (\E c \in Calls : Waiting(c)) \/ query.pc = "probe"
  /\ \A c \in Calls : calls[c].pc = "timer" => calls[c].clock < checkInterval
  /\ \A c \in Calls : calls[c].pc \in {"probe", "poll", "stopProbe"}
                        => calls[c].clock < probeTimeout
  /\ query.pc = "probe" => query.clock < probeTimeout
  /\ query' = [query EXCEPT !.clock = IF query.pc = "probe" THEN @ + checkInterval ELSE @]
  /\ startAge' = Min(startAge + checkInterval, AgeCap)
  /\ calls' = [c \in Calls |->
       [calls[c] EXCEPT
          !.clock = IF Waiting(c) THEN @ + checkInterval ELSE @,
          !.elapsed = IF calls[c].launched /\ InFlight(c) /\ ~calls[c].overlapped
                      THEN Min(@ + checkInterval, ElapsedCap) ELSE @]]
  /\ UNCHANGED <<terminal, isRunning, serverPort, terminals, sent, config, aside>>

Next ==
  \/ SetConfig
  \/ Tick
  \/ \E c \in Calls : StartServer(c)
  \/ \E c \in Calls : ValidateDone(c)
  \/ \E c \in Calls : InitialProbeDone(c)
  \/ \E c \in Calls : CommandExistsDone(c)
  \/ \E c \in Calls : TimerFires(c)
  \/ \E c \in Calls : PollProbeDone(c)
  \/ \E c \in Calls : StopServer(c)
  \/ \E c \in Calls : StopProbeDone(c)

Spec == Init /\ [][Next]_vars

(* ------------------------------ readers ------------------------------- *)

\* isServerRunning trusting the cache: no probe when the cached state is Running
IsServerRunningTrustsCache ==
  /\ query.pc # "probe"
  /\ IF isRunning
     THEN query' = [NoQuery EXCEPT !.op = "isServerRunning", !.pc = "returned",
                                   !.result = TRUE]
     ELSE query' = [NoQuery EXCEPT !.op = "isServerRunning", !.pc = "probe",
                                   !.probePort = serverPort]
  /\ UNCHANGED <<calls, terminal, isRunning, serverPort, startAge, terminals, sent, config, aside>>

\* isServerRunning, lines 227-229: this.checkIfServerRunning(this._serverPort)
\* is called and its promise is what the caller gets
isServerRunning ==
  /\ query.pc # "probe"
  /\ query' = [NoQuery EXCEPT !.op = "isServerRunning", !.pc = "probe",
                               !.probePort = serverPort]
  /\ UNCHANGED <<calls, terminal, isRunning, serverPort, startAge, terminals, sent, config>>

\* isServerRunning called by a reader outside the extension's handlers
IsServerRunning == isServerRunning /\ UNCHANGED aside

\* the probe of isServerRunning has settled: the caller gets its result
isServerRunningDone ==
  /\ query.pc = "probe"
  /\ \E o \in Outcomes :
       /\ IF o = "timeout" THEN query.clock = probeTimeout ELSE query.clock <= probeTimeout
       /\ query' = [query EXCEPT !.pc = "returned", !.probePort = 0, !.clock = 0,
                                 !.lastProbe = IF checkIfServerRunning(o) THEN "reachable"
                                               ELSE "unreachable",
                                 !.result = checkIfServerRunning(o)]
  /\ UNCHANGED <<calls, terminal, isRunning, serverPort, startAge, terminals, sent, config>>

IsServerRunningDone == isServerRunningDone /\ UNCHANGED aside

\* getServerStatus returning the result of a probe instead of the cached state
GetServerStatusProbes ==
  /\ query.pc # "probe"
  /\ query' = [NoQuery EXCEPT !.op = "getServerStatus", !.pc = "probe",
                               !.probePort = serverPort]
  /\ UNCHANGED <<calls, terminal, isRunning, serverPort, startAge, terminals, sent, config, aside>>

\* getServerStatus, lines 235-237: return this._isRunning
GetServerStatus ==
  /\ query.pc # "probe"
  /\ query' = [NoQuery EXCEPT !.op = "getServerStatus", !.pc = "returned",
                               !.result = isRunning]
  /\ UNCHANGED <<calls, terminal, isRunning, serverPort, startAge, terminals, sent, config, aside>>

\* the coordinator with a reader that calls isServerRunning and getServerStatus
\* at any time, one call after the other
NextQueries ==
  \/ Next
  \/ IsServerRunning
  \/ IsServerRunningDone
  \/ GetServerStatus

SpecQueries == Init /\ [][NextQueries]_vars

(* ------------------------ the reachability probe ---------------------- *)

\* checkIfServerRunning(port), lines 193-220 and part_002 206-224: the promise
\* is created and the request (the socket) is sent on its way; the timeout of
\* probeTimeout runs from here
CheckIfServerRunning ==
  /\ attempt.pc = "idle" \/ (attempt.http # "pending" /\ attempt.tcp # "pending")
  /\ \E port \in Ports, conn \in Connections :
       attempt' = [NoAttempt EXCEPT !.pc = "open", !.port = port, !.conn = conn,
                                    !.http = "pending", !.tcp = "pending"]
  /\ UNCHANGED <<calls, terminal, isRunning, serverPort, startAge, terminals, sent,
                 config, query, detect, ext, panel, bar>>

\* the connection is accepted.  part_002 219-222: the connect callback ends the
\* socket and resolves true.  The HTTP revision has no handler here: the
\* request is written and the answer awaited.
ProbeConnect ==
  /\ attempt.pc = "open" /\ attempt.conn \in Accepting
  /\ ~attempt.accepted /\ ~attempt.timedOut
  /\ attempt' = [attempt EXCEPT !.accepted = TRUE, !.tcp = resolve(@, "true")]
  /\ UNCHANGED <<calls, terminal, isRunning, serverPort, startAge, terminals, sent,
                 config, query, detect, ext, panel, bar>>

\* lines 202-208: the response callback resolves statusCode === 200.  The TCP
\* revision has ended its socket at connect and has no handler for data.
ProbeResponse ==
  /\ attempt.pc = "open" /\ attempt.conn \in {"ok200", "okOther"}
  /\ attempt.accepted /\ ~attempt.answered /\ ~attempt.timedOut
  /\ attempt' = [attempt EXCEPT
                   !.answered = TRUE,
                   !.http = resolve(@, IF statusCode(attempt.conn) = 200
                                       THEN "true" ELSE "false")]
  /\ UNCHANGED <<calls, terminal, isRunning, serverPort, startAge, terminals, sent,
                 config, query, detect, ext, panel, bar>>

\* the 'error' event: the attempt is refused, the accepted connection is closed
\* before an answer, or the request has been destroyed by the timeout handler
\* before an answer.  Lines 210-212: resolve(false).  part_002 209-212, 215:
\* socket.destroy(); resolve(false), for a socket that was not destroyed yet.
ProbeError ==
  /\ attempt.pc = "open" /\ ~attempt.failed /\ ~attempt.answered
  /\ \/ attempt.conn = "refused" /\ ~attempt.timedOut
     \/ attempt.conn = "reset" /\ attempt.accepted /\ ~attempt.timedOut
     \/ attempt.timedOut
  /\ attempt' = [attempt EXCEPT
                   !.failed = TRUE,
                   !.http = resolve(@, "false"),
                   !.tcp = IF attempt.timedOut THEN @ ELSE resolve(@, "false")]
  /\ UNCHANGED <<calls, terminal, isRunning, serverPort, startAge, terminals, sent,
                 config, query, detect, ext, panel, bar>>

\* the timeout handler destroying the request without resolving
ProbeTimeoutOnlyDestroys ==
  /\ attempt.pc = "open" /\ attempt.clock = probeTimeout
  /\ ~attempt.timedOut /\ ~attempt.failed
  /\ attempt' = [attempt EXCEPT !.timedOut = TRUE, !.tcp = resolve(@, "false")]
  /\ UNCHANGED <<calls, terminal, isRunning, serverPort, startAge, terminals, sent,
                 config, query, detect, ext, panel, bar>>

\* the 'timeout' event, probeTimeout after the request was sent.  Lines
\* 214-217: req.destroy(); resolve(false).  part_002 214, 216 and 209-212:
\* socket.destroy(); resolve(false).
ProbeTimeout ==
  /\ attempt.pc = "open" /\ attempt.clock = probeTimeout
  /\ ~attempt.timedOut /\ ~attempt.failed
  /\ attempt' = [attempt EXCEPT !.timedOut = TRUE,
                                !.http = resolve(@, "false"),
                                !.tcp = resolve(@, "false")]
  /\ UNCHANGED <<calls, terminal, isRunning, serverPort, startAge, terminals, sent,
                 config, query, detect, ext, panel, bar>>

\* time passes for the attempt, up to its timeout
ProbeTick ==
  /\ attempt.pc = "open" /\ ~attempt.timedOut /\ ~attempt.failed
  /\ attempt.clock < probeTimeout
  /\ attempt' = [attempt EXCEPT !.clock = @ + checkInterval]
  /\ UNCHANGED <<calls, terminal, isRunning, serverPort, startAge, terminals, sent,
                 config, query, detect, ext, panel, bar>>

NextProbe ==
  \/ CheckIfServerRunning
  \/ ProbeConnect
  \/ ProbeResponse
  \/ ProbeError
  \/ ProbeTimeout
  \/ ProbeTick

\* the probe alone, one attempt after the other, against every behaviour of the port
SpecProbe == Init /\ [][NextProbe]_vars

(* ------------------------- the project detector ----------------------- *)

\* names of dependencies, as the prefix dep.startsWith looks at and the rest
DepNames == {<<"@motiadev/", "core">>, <<"", "motia">>, <<"", "motia-cli">>}
\* the keys of a dependencies or devDependencies object
DepSets == {{}} \cup {{dep} : dep \in DepNames}

\* package.json of a folder: absent, not JSON, the JSON value null, or an
\* object with dependencies and devDependencies
PackageJsons ==
  [file : {"none", "unparseable", "null"}, dependencies : {{}}, devDependencies : {{}}]
  \cup [file : {"object"}, dependencies : DepSets, devDependencies : DepSets]

\* a workspace folder: the entry named steps (absent, a file or a directory)
\* and package.json
Folders == [steps : {"none", "file", "dir"}, pkg : PackageJsons]

Workspaces == UNION {[1 .. n -> Folders] : n \in 0 .. MaxFolders}

\* part_002 35-37: dep.startsWith('@motiadev/') || dep === 'motia', for some key
\* of {...dependencies, ...devDependencies}
hasMotiaDependency(pkg) ==
  \E dep \in pkg.dependencies \cup pkg.devDependencies :
    dep[1] = "@motiadev/" \/ dep = <<"", "motia">>

\* the package.json check with an error in it ending the search
checkPackageJsonStopsOnError(pkg) ==
  IF pkg.file = "none" THEN "continue"
  ELSE IF pkg.file \in {"unparseable", "null"} THEN "false"
  ELSE IF hasMotiaDependency(pkg) THEN "true" ELSE "continue"

\* part_002 25-46: the package.json check of one folder.  JSON.parse throws
\* for a file that is not JSON and reading .dependencies of null throws; both
\* inside the try, whose catch logs and goes on to the next folder.
checkPackageJson(pkg) ==
  IF pkg.file = "none" THEN "continue"
  ELSE IF pkg.file \in {"unparseable", "null"} THEN "continue"
  ELSE IF hasMotiaDependency(pkg) THEN "true" ELSE "continue"

\* part_002 17-46: the loop over the folders, from folder i on
RECURSIVE checkFolders(_, _)
checkFolders(workspaceFolders, i) ==
  IF i > Len(workspaceFolders) THEN "false"
  ELSE LET folder == workspaceFolders[i]
           r == checkPackageJson(folder.pkg)
       IN IF folder.steps # "none" /\ folder.steps = "dir" THEN "true"
          ELSE IF r = "continue" THEN checkFolders(workspaceFolders, i + 1)
          ELSE r

\* part_002 9-49
isMotiaProject(workspaceFolders) ==
  IF Len(workspaceFolders) = 0 THEN FALSE
  ELSE checkFolders(workspaceFolders, 1) = "true"

InitDetect ==
  /\ InitCoordinator
  /\ attempt = NoAttempt
  /\ ext = NoExt
  /\ panel = NoPanel
  /\ bar = NoBar
  /\ detect \in [folders : Workspaces, pc : {"idle"}, result : {FALSE}]

\* isMotiaProject() is called on the workspace as it is
IsMotiaProject ==
  /\ detect.pc = "idle"
  /\ detect' = [detect EXCEPT !.pc = "returned",
                              !.result = isMotiaProject(detect.folders)]
  /\ UNCHANGED <<calls, terminal, isRunning, serverPort, startAge, terminals, sent,
                 config, query, attempt, ext, panel, bar>>

\* the detector on every workspace of up to MaxFolders folders
SpecDetect == InitDetect /\ [][IsMotiaProject]_vars

(* ------------------------ starts from the webview --------------------- *)

\* workbenchPanel.ts 80-98: the startServer message of the webview calls
\* ServerManager.startServer() without an extensionUri
StartServerFromPanel(c) == startServer(c, FALSE) /\ UNCHANGED aside

NextWorkbench ==
  \/ Next
  \/ \E c \in Calls : StartServerFromPanel(c)

\* the coordinator called by the commands, with an extensionUri, and by the
\* webview, without one
SpecWorkbench == Init /\ [][NextWorkbench]_vars

(* -------------------------- the workbench panel ----------------------- *)

\* the next createOrShow call: calls are numbered in the order they are made
NextShow(k) ==
  panel.shows[k].pc = "none" /\ \A j \in Shows : j < k => panel.shows[j].pc # "none"

\* workbenchPanel.ts 17-46, up to the await of _update: with a current panel
\* it is revealed and updated, otherwise a panel is created and becomes the
\* current one
CreateOrShow(k) ==
  /\ NextShow(k)
  /\ IF panel.currentPanel # 0
     THEN panel' = [panel EXCEPT
                      !.shows[k] = [pc |-> "update", target |-> panel.currentPanel,
                                    created |-> FALSE]]
     ELSE panel' = [panel EXCEPT
                      !.panels[k] = "open",
                      !.currentPanel = k,
                      !.shows[k] = [pc |-> "update", target |-> k, created |-> TRUE]]
  /\ UNCHANGED <<calls, terminal, isRunning, serverPort, startAge, terminals, sent,
                 config, query, attempt, detect, ext, bar>>

\* lines 133-136: _getHtmlForWebview has settled and the html of the panel of
\* this _update is set, which throws when that panel has been disposed
Update(k) ==
  /\ panel.shows[k].pc = "update"
  /\ panel' = [panel EXCEPT
                 !.shows[k].pc = IF panel.panels[panel.shows[k].target] = "open"
                                 THEN "done" ELSE "threw"]
  /\ UNCHANGED <<calls, terminal, isRunning, serverPort, startAge, terminals, sent,
                 config, query, attempt, detect, ext, bar>>

\* dispose without `WorkbenchPanel.currentPanel = undefined`
DisposeKeepsCurrentPanel(p) ==
  /\ panel.panels[p] = "open"
  /\ panel' = [panel EXCEPT !.panels[p] = "disposed"]
  /\ UNCHANGED <<calls, terminal, isRunning, serverPort, startAge, terminals, sent,
                 config, query, attempt, detect, ext, bar>>

\* the user closes panel p: onDidDispose (line 59) runs dispose, lines 116-128
Dispose(p) ==
  /\ panel.panels[p] = "open"
  /\ panel' = [panel EXCEPT !.panels[p] = "disposed", !.currentPanel = 0]
  /\ UNCHANGED <<calls, terminal, isRunning, serverPort, startAge, terminals, sent,
                 config, query, attempt, detect, ext, bar>>

NextPanel ==
  \/ \E k \in Shows : CreateOrShow(k)
  \/ \E k \in Shows : Update(k)
  \/ \E p \in Shows : Dispose(p)

\* the workbench panel under createOrShow calls that interleave with each
\* other and with the user closing the panel
SpecPanel == Init /\ [][NextPanel]_vars

(* ----------------------------- the status bar ------------------------- *)

\* part_001 39-65, the state activate leaves in a Motia project: the item
\* shows '$(tools) Motia', the initial isServerRunning is awaited and the
\* interval timer is set
InitBar ==
  /\ InitCoordinator
  /\ attempt = NoAttempt
  /\ detect = NoDetect
  /\ ext = [NoExt EXCEPT !.pc = "active", !.isMotia = TRUE, !.registered = TRUE]
  /\ panel = NoPanel
  /\ \E reachable \in BOOLEAN :
       bar = [NoBar EXCEPT !.pc = "probe", !.reachable = reachable, !.saw = {reachable}]

\* part_001 55-57: the interval timer is due and the status check calls
\* isServerRunning
RefreshFires ==
  /\ bar.pc = "idle"
  /\ bar.timer >= statusInterval
  /\ bar' = [bar EXCEPT !.pc = "probe", !.timer = 0, !.clock = 0, !.saw = {bar.reachable}]
  /\ UNCHANGED <<calls, terminal, isRunning, serverPort, startAge, terminals, sent,
                 config, query, attempt, detect, ext, panel>>

\* the status check showing Running when the probe found the server and
\* leaving the indicator alone otherwise
RefreshDoneOnlyRaises ==
  /\ bar.pc = "probe"
  /\ \E o \in Outcomes :
       /\ IF o = "timeout" THEN bar.clock = probeTimeout ELSE bar.clock <= probeTimeout
       /\ checkIfServerRunning(o) \in bar.saw
       /\ bar' = [bar EXCEPT !.pc = "idle", !.clock = 0, !.saw = {},
                             !.indicator = IF checkIfServerRunning(o)
                                           THEN updateStatusBarItem(TRUE) ELSE @]
  /\ UNCHANGED <<calls, terminal, isRunning, serverPort, startAge, terminals, sent,
                 config, query, attempt, detect, ext, panel>>

\* part_001 48-49 and 57-58: the probe has settled, with what the port did at
\* some moment while it was in flight, and updateStatusBarItem gets its result
RefreshDone ==
  /\ bar.pc = "probe"
  /\ \E o \in Outcomes :
       /\ IF o = "timeout" THEN bar.clock = probeTimeout ELSE bar.clock <= probeTimeout
       /\ checkIfServerRunning(o) \in bar.saw
       /\ bar' = [bar EXCEPT !.pc = "idle", !.clock = 0, !.saw = {},
                             !.indicator = updateStatusBarItem(checkIfServerRunning(o))]
  /\ UNCHANGED <<calls, terminal, isRunning, serverPort, startAge, terminals, sent,
                 config, query, attempt, detect, ext, panel>>

\* part_001 74, 123, 126, 131, 142, 147: a command handler calls
\* updateStatusBarItem, with true after a start that resolved, false after a
\* start that rejected or a stop, or the result of its own probe
HandlerWrites ==
  /\ bar.pc # "off"
  /\ \E running \in BOOLEAN :
       bar' = [bar EXCEPT !.indicator = updateStatusBarItem(running), !.quiet = 0]
  /\ UNCHANGED <<calls, terminal, isRunning, serverPort, startAge, terminals, sent,
                 config, query, attempt, detect, ext, panel>>

\* the server on the port comes up or goes away
PortChanges ==
  /\ bar.pc # "off"
  /\ bar' = [bar EXCEPT !.reachable = ~@, !.quiet = 0,
                        !.saw = IF bar.pc = "probe" THEN BOOLEAN ELSE @]
  /\ UNCHANGED <<calls, terminal, isRunning, serverPort, startAge, terminals, sent,
                 config, query, attempt, detect, ext, panel>>

\* time passes, unless the interval timer is due or the probe has reached its
\* timeout
BarTick ==
  /\ bar.pc # "off"
  /\ bar.timer < statusInterval
  /\ bar.pc = "probe" => bar.clock < probeTimeout
  /\ bar' = [bar EXCEPT !.timer = @ + checkInterval,
                        !.clock = IF bar.pc = "probe" THEN @ + checkInterval ELSE @,
                        !.quiet = Min(@ + checkInterval, QuietCap)]
  /\ UNCHANGED <<calls, terminal, isRunning, serverPort, startAge, terminals, sent,
                 config, query, attempt, detect, ext, panel>>

NextBar ==
  \/ RefreshFires
  \/ RefreshDone
  \/ HandlerWrites
  \/ PortChanges
  \/ BarTick

\* the status bar item between the command handlers, the port and the
\* periodic status check
SpecStatusBar == InitBar /\ [][NextBar]_vars

(* ---------------------------- the extension --------------------------- *)

\* activate, extension.ts 13-132, from the return of isMotiaProject to the
\* await of the automatic start: isMotiaProject has returned isMotia and the
\* autoStartServer setting reads setting; start tells whether startServer is
\* called
activate(c, isMotia, setting, start) ==
  /\ IF isMotia /\ start
     THEN /\ startServer(c, TRUE)
          /\ ext' = [ext EXCEPT !.pc = "autostart", !.isMotia = TRUE, !.registered = TRUE,
                                !.autoStartServer = setting, !.autoStarts = @ + 1,
                                !.autoCall = c]
     ELSE /\ ext' = [ext EXCEPT !.pc = "active", !.isMotia = isMotia,
                                !.registered = isMotia,
                                !.autoStartServer = isMotia /\ setting]
          /\ UNCHANGED <<calls, terminal, isRunning, serverPort, startAge, terminals,
                         sent, config, query>>
  /\ UNCHANGED <<attempt, detect, panel, bar>>

\* activate starting the server in every Motia project, whatever the setting
ActivateIgnoresSetting ==
  /\ ext.pc = "inactive"
  /\ \E c \in Calls, workspaceFolders \in Workspaces, autoStartServer \in BOOLEAN :
       activate(c, isMotiaProject(workspaceFolders), autoStartServer, TRUE)

\* activate is called, once.  Lines 18, 20 and 115-118: the commands are
\* registered in a Motia project, and startServer is called if (autoStartServer)
Activate ==
  /\ ext.pc = "inactive"
  /\ \E c \in Calls, workspaceFolders \in Workspaces, autoStartServer \in BOOLEAN :
       activate(c, isMotiaProject(workspaceFolders), autoStartServer, autoStartServer)

\* lines 119-124: the awaited startServer has settled; a rejection is caught
\* and logged, and activate returns
AutoStartSettled ==
  /\ ext.pc = "autostart"
  /\ calls[ext.autoCall].outcome # "pending"
  /\ ext' = [ext EXCEPT !.pc = "active"]
  /\ UNCHANGED <<calls, terminal, isRunning, serverPort, startAge, terminals, sent,
                 config, query, attempt, detect, panel, bar>>

\* deactivate, lines 137-146: stopServer is called and not awaited
Deactivate(c) ==
  /\ ext.pc # "inactive" /\ ~ext.deactivated
  /\ stopServer(c)
  /\ ext' = [ext EXCEPT !.deactivated = TRUE, !.stopCall = c]
  /\ UNCHANGED <<attempt, detect, panel, bar>>

\* the commands motia.startServer and motia.stopServer (lines 83-113) can be
\* run from their registration until the extension is deactivated
CommandsAvailable == ext.registered /\ ~ext.deactivated

\* the steps of the calls in flight: timers, probes and child processes
CoordinatorStep ==
  \/ SetConfig
  \/ Tick
  \/ \E c \in Calls : ValidateDone(c)
  \/ \E c \in Calls : InitialProbeDone(c)
  \/ \E c \in Calls : CommandExistsDone(c)
  \/ \E c \in Calls : TimerFires(c)
  \/ \E c \in Calls : PollProbeDone(c)
  \/ \E c \in Calls : StopProbeDone(c)

NextExtension ==
  \/ Activate
  \/ AutoStartSettled
  \/ \E c \in Calls : Deactivate(c)
  \/ CommandsAvailable /\ \E c \in Calls : StartServer(c)
  \/ CommandsAvailable /\ \E c \in Calls : StopServer(c)
  \/ CoordinatorStep

\* the extension from its activation to its teardown, with the user running
\* the start and stop commands in between
SpecExtension == Init /\ [][NextExtension]_vars

(* ------------------------------ the menu ------------------------------ *)

\* part_001 77-92: the items of the service menu for the value of isRunning
menuItemsFor(running) ==
  IF running THEN {"motia.stopServer", "motia.openWorkbench"} ELSE {"motia.startServer"}

\* part_001 69-72: motia.showServiceMenu is run and awaits isServerRunning()
ShowServiceMenu ==
  /\ CommandsAvailable
  /\ ext.menu = "closed" /\ ext.workbench \in {"idle", "starting"}
  /\ isServerRunning
  /\ ext' = [ext EXCEPT !.menu = "probe"]
  /\ UNCHANGED <<attempt, detect, panel, bar>>

\* the menu built from the cached state instead of the result of the probe
MenuProbeDoneUsesCache ==
  /\ ext.menu = "probe"
  /\ isServerRunningDone
  /\ ext' = [ext EXCEPT !.menu = "shown", !.menuItems = menuItemsFor(isRunning)]
  /\ UNCHANGED <<attempt, detect, panel, bar>>

\* part_001 72-97: the probe has settled; the menu is built from its result
\* and shown
MenuProbeDone ==
  /\ ext.menu = "probe"
  /\ isServerRunningDone
  /\ ext' = [ext EXCEPT !.menu = "shown", !.menuItems = menuItemsFor(query'.result)]
  /\ UNCHANGED <<attempt, detect, panel, bar>>

\* extension.ts 33-36: motia.openWorkbench awaits isServerRunning()
openWorkbench ==
  /\ ext.workbench = "idle"
  /\ isServerRunning
  /\ ext' = [ext EXCEPT !.menu = "closed", !.menuItems = {}, !.workbench = "probe",
                        !.opened = "no"]
  /\ UNCHANGED <<attempt, detect, panel, bar>>

\* part_001 99-101: the user dismisses the menu or picks an item, and the
\* command of the item is executed
MenuSelect(c) ==
  /\ ext.menu = "shown"
  /\ \/ /\ ext' = [ext EXCEPT !.menu = "closed", !.menuItems = {}]
        /\ UNCHANGED <<calls, terminal, isRunning, serverPort, startAge, terminals,
                       sent, config, query, attempt, detect, panel, bar>>
     \/ /\ "motia.startServer" \in ext.menuItems
        /\ startServer(c, TRUE)
        /\ ext' = [ext EXCEPT !.menu = "closed", !.menuItems = {}]
        /\ UNCHANGED <<attempt, detect, panel, bar>>
     \/ /\ "motia.stopServer" \in ext.menuItems
        /\ stopServer(c)
        /\ ext' = [ext EXCEPT !.menu = "closed", !.menuItems = {}]
        /\ UNCHANGED <<attempt, detect, panel, bar>>
     \/ /\ "motia.openWorkbench" \in ext.menuItems
        /\ openWorkbench

\* motia.openWorkbench run from the command palette
OpenWorkbench ==
  /\ CommandsAvailable
  /\ ext.menu = "closed"
  /\ openWorkbench

\* extension.ts 36-50: the probe has settled; the panel is opened if it found
\* the server, otherwise the user is asked
OpenWorkbenchProbeDone ==
  /\ ext.workbench = "probe"
  /\ isServerRunningDone
  /\ ext' = IF query'.result
            THEN [ext EXCEPT !.workbench = "idle", !.opened = "direct"]
            ELSE [ext EXCEPT !.workbench = "prompt"]
  /\ UNCHANGED <<attempt, detect, panel, bar>>

\* extension.ts 52-73: the answer to the question: Start Server, Open Anyway,
\* or neither
PromptChoice(c) ==
  /\ ext.workbench = "prompt"
  /\ \/ /\ startServer(c, TRUE)
        /\ ext' = [ext EXCEPT !.workbench = "starting", !.wbCall = c]
        /\ UNCHANGED <<attempt, detect, panel, bar>>
     \/ /\ \E opened \in {"anyway", "no"} :
             ext' = [ext EXCEPT !.workbench = "idle", !.opened = opened]
        /\ UNCHANGED <<calls, terminal, isRunning, serverPort, startAge, terminals,
                       sent, config, query, attempt, detect, panel, bar>>

\* extension.ts 61-68: the start awaited by openWorkbench has settled; after
\* a rejection the panel is opened to show that the server is not running
WorkbenchStartSettled ==
  /\ ext.workbench = "starting"
  /\ calls[ext.wbCall].outcome # "pending"
  /\ ext' = [ext EXCEPT !.workbench = "idle", !.wbCall = 0,
                        !.opened = IF calls[ext.wbCall].outcome = "rejected"
                                   THEN "afterFailure" ELSE "no"]
  /\ UNCHANGED <<calls, terminal, isRunning, serverPort, startAge, terminals, sent,
                 config, query, attempt, detect, panel, bar>>

\* the extension after its activation in a Motia project without automatic start
InitMenu ==
  /\ InitCoordinator
  /\ attempt = NoAttempt
  /\ detect = NoDetect
  /\ ext = [NoExt EXCEPT !.pc = "active", !.isMotia = TRUE, !.registered = TRUE]
  /\ panel = NoPanel
  /\ bar = NoBar

NextMenu ==
  \/ ShowServiceMenu
  \/ MenuProbeDone
  \/ \E c \in Calls : MenuSelect(c)
  \/ OpenWorkbench
  \/ OpenWorkbenchProbeDone
  \/ \E c \in Calls : PromptChoice(c)
  \/ WorkbenchStartSettled
  \/ CoordinatorStep

\* the user working through the service menu and the workbench command
SpecMenu == InitMenu /\ [][NextMenu]_vars

TypeOK ==
  /\ terminal \in 0 .. MaxCalls
  /\ isRunning \in BOOLEAN
  /\ serverPort \in Ports
  /\ terminals \in [Calls -> {"none", "live", "disposed"}]
  /\ config \in Configs
  /\ startAge \in 0 .. AgeCap
  /\ query.op \in {"none", "isServerRunning", "getServerStatus"}
  /\ query.pc \in {"idle", "probe", "returned"}
  /\ query.probePort \in Ports \cup {0}
  /\ query.clock \in 0 .. probeTimeout
  /\ query.lastProbe \in {"none", "reachable", "unreachable"}
  /\ query.result \in BOOLEAN
  /\ attempt.pc \in {"idle", "open"}
  /\ attempt.conn \in Connections \cup {"none"}
  /\ attempt.clock \in 0 .. probeTimeout
  /\ attempt.http \in {"none", "pending", "true", "false"}
  /\ attempt.tcp \in {"none", "pending", "true", "false"}
  /\ detect.folders \in Workspaces
  /\ detect.pc \in {"idle", "returned"}
  /\ ext.pc \in {"inactive", "autostart", "active"}
  /\ ext.autoStarts \in 0 .. 1
  /\ ext.autoCall \in 0 .. MaxCalls
  /\ ext.stopCall \in 0 .. MaxCalls
  /\ ext.menu \in {"closed", "probe", "shown"}
  /\ ext.menuItems \subseteq {"motia.startServer", "motia.stopServer", "motia.openWorkbench"}
  /\ ext.workbench \in {"idle", "probe", "prompt", "starting"}
  /\ ext.opened \in {"no", "direct", "anyway", "afterFailure"}
  /\ \A c \in Calls : calls[c].extensionUri \in BOOLEAN /\ calls[c].opens \in 0 .. 1
  /\ panel.currentPanel \in 0 .. MaxShows
  /\ panel.panels \in [Shows -> {"none", "open", "disposed"}]
  /\ \A k \in Shows : panel.shows[k].pc \in {"none", "update", "done", "threw"}
  /\ bar.pc \in {"off", "idle", "probe"}
  /\ bar.indicator \in {"stopped", "running"}
  /\ bar.timer \in 0 .. statusInterval
  /\ bar.clock \in 0 .. probeTimeout
  /\ bar.saw \subseteq BOOLEAN
  /\ bar.quiet \in 0 .. QuietCap

(* ----------------------------- properties ----------------------------- *)

Live == {t \in Calls : terminals[t] = "live"}
IssuedCalls == {c \in Calls : Issued(c)}

\* call c is issued in this step
Begins(c) == ~Issued(c) /\ Issued(c)'
\* the promise of call c settles in this step
Settles(c) == InFlight(c) /\ calls'[c].outcome # "pending"

\* C1: at most one terminal created by the coordinator is live at any time.
C1_AtMostOneLiveTerminal == Cardinality(Live) <= 1

\* C2: at most one startServer / stopServer call has begun and not settled:
\* a call issued while another is in flight does not begin before it settles.
C2_OneOperationInFlight == Cardinality({c \in Calls : InFlight(c)}) <= 1

\* C3: a startServer followed by a stopServer issued before the start settled
\* leaves the cached state Idle once both have settled (and nothing else was called).
C3_StartThenStopEndsIdle ==
  \A s \in Calls, t \in Calls :
    ( /\ calls[s].kind = "start" /\ calls[t].kind = "stop"
      /\ calls[s].stopDuring
      /\ Settled(s) /\ Settled(t)
      /\ IssuedCalls = {s, t} )
    => ~isRunning

\* C4: a startServer that was polling when stopServer was called settles as a
\* failure: it never resolves successfully.
C4_StopCancelsPollingStart ==
  \A c \in Calls :
    (calls[c].kind = "start" /\ calls[c].stopMidPoll /\ Settled(c))
    => calls[c].outcome = "rejected"

\* C5: when the initial probe of a startServer call reports reachable, the call
\* resolves, the cached state becomes Running, and nothing is launched: no
\* terminal is created, no command is sent, the owned handle is unchanged.
C5_Adoption ==
  [][\A c \in Calls :
       (calls[c].pc = "probe" /\ calls'[c].pc # "probe" /\ calls'[c].lastProbe = "reachable")
       => /\ calls'[c].outcome = "resolved"
          /\ isRunning'
          /\ terminal' = terminal
          /\ terminals' = terminals
          /\ sent' = sent]_vars

\* a second start, issued while Running with an owned live terminal, has adopted
C5_Witness ==
  \E c \in Calls, d \in Calls :
    /\ c < d
    /\ calls[c].kind = "start" /\ calls[c].outcome = "resolved" /\ calls[c].launched
    /\ calls[d].kind = "start" /\ calls[d].outcome = "resolved" /\ ~calls[d].launched
    /\ calls[d].lastProbe = "reachable"
    /\ ~calls[d].overlapped
    /\ isRunning /\ terminal = c /\ Live = {c} /\ sent[c] = 1

\* C6 (as claimed): Running implies an owned live handle, and Idle with no
\* start in flight implies no owned handle.
C6_StateHandleInvariant ==
  /\ isRunning => (terminal # 0 /\ terminals[terminal] = "live")
  /\ (~isRunning /\ ~\E c \in Calls : calls[c].kind = "start" /\ InFlight(c))
       => terminal = 0

\* C6 (amended): the owned handle, when there is one, is a live terminal; the
\* cached state says nothing about ownership.
C6_OwnedHandleIsLive == terminal # 0 => terminals[terminal] = "live"

\* a live handle is owned while the cached state is Idle and nothing is in
\* flight: the start that created it has timed out
C6_Witness ==
  /\ terminal # 0 /\ terminals[terminal] = "live"
  /\ ~isRunning
  /\ \A c \in Calls : ~InFlight(c)
  /\ calls[terminal].error = "Timeout"

\* C7: stopServer called while Idle with no owned handle resolves and leaves the
\* cached state, the owned handle, the terminals and the stored port unchanged,
\* in the call itself and when its probe settles; a stopServer never rejects.
C7_IdempotentStop ==
  [][\A c \in Calls :
       /\ (Begins(c) /\ calls'[c].kind = "stop" /\ terminal = 0 /\ ~isRunning)
            => /\ isRunning' = isRunning /\ terminal' = terminal
               /\ terminals' = terminals /\ serverPort' = serverPort
       /\ (calls[c].kind = "stop" /\ Settles(c))
            => /\ calls'[c].outcome = "resolved"
               /\ isRunning' = isRunning /\ terminal' = terminal
               /\ terminals' = terminals /\ serverPort' = serverPort]_vars

\* two stops in a row from Idle, both resolved, the state as at the start
C7_Witness ==
  /\ \A c \in Calls : calls[c].kind = "stop" /\ calls[c].outcome = "resolved"
                      /\ ~calls[c].hadTerminal /\ ~calls[c].wasRunning /\ ~calls[c].overlapped
  /\ ~isRunning /\ terminal = 0 /\ serverPort = defaultPort

\* C8: stopServer with an owned handle disposes it, clears the ownership and
\* sets the cached state to Idle in the call itself, before its one probe
\* settles; that probe stays the only one until it settles, and then the call
\* resolves whatever the probe found (reachable is only a warning) with
\* nothing else changed; with no other call in between the state is still
\* Idle with no handle.
C8_StopWithHandle ==
  [][\A c \in Calls :
       /\ (Begins(c) /\ calls'[c].kind = "stop" /\ terminal # 0)
            => /\ terminals' = [terminals EXCEPT ![terminal] = "disposed"]
               /\ terminal' = 0
               /\ ~isRunning'
               /\ calls'[c].pc = "stopProbe" /\ calls'[c].probePort = serverPort
       /\ (calls[c].kind = "stop" /\ calls[c].hadTerminal /\ calls'[c] # calls[c])
            => \/ calls'[c].pc = "stopProbe" /\ calls'[c].probePort = calls[c].probePort
               \/ Settles(c)
       /\ (calls[c].kind = "stop" /\ calls[c].hadTerminal /\ Settles(c))
            => /\ calls[c].pc = "stopProbe"
               /\ calls'[c].outcome = "resolved"
               /\ calls'[c].warned = (calls'[c].lastProbe = "reachable")
               /\ isRunning' = isRunning /\ terminal' = terminal /\ terminals' = terminals
               /\ (~calls[c].overlapped => (~isRunning' /\ terminal' = 0))]_vars

\* a stop that owned a handle has resolved although its probe found the port reachable
C8_Witness ==
  \E c \in Calls :
    /\ calls[c].kind = "stop" /\ calls[c].hadTerminal
    /\ calls[c].outcome = "resolved" /\ calls[c].warned
    /\ ~calls[c].overlapped
    /\ ~isRunning /\ terminal = 0 /\ Live = {}

\* C9: a stopServer called with cached state Running and no other call in
\* flight leaves the cached state Idle once it has settled.
C9_RunningStopIdle ==
  \A c \in Calls :
    ( /\ calls[c].kind = "stop" /\ Settled(c)
      /\ calls[c].wasRunning /\ ~calls[c].overlapped
      /\ \A d \in Calls : d > c => ~Issued(d) )
    => ~isRunning

\* C10: a startServer whose polls all report unreachable settles with a timeout
\* error no later than maxStartupTime plus one probe timeout after its launch.
C10_TimeoutBound ==
  \A c \in Calls :
    (calls[c].kind = "start" /\ calls[c].error = "Timeout" /\ ~calls[c].overlapped)
    => calls[c].elapsed <= maxStartupTime + probeTimeout

\* C11: when the polling of a startServer ends by timeout, the cached state
\* becomes Idle, the call rejects with the timeout error, and no terminal is
\* disposed or released: the terminal the call launched stays owned, and the
\* stopServer called next disposes it.
C11_TimeoutOutcome ==
  [][\A c \in Calls :
       /\ (Settles(c) /\ calls'[c].error = "Timeout")
            => /\ calls[c].pc = "poll" /\ calls'[c].outcome = "rejected"
               /\ ~isRunning'
               /\ terminal' = terminal /\ terminals' = terminals /\ sent' = sent
               /\ (~calls[c].overlapped => (terminal' = c /\ terminals'[c] = "live"))
       /\ \A d \in Calls :
            ( /\ calls[c].error = "Timeout" /\ ~calls[c].overlapped
              /\ d = c + 1 /\ Begins(d) /\ calls'[d].kind = "stop" )
            => (terminals'[c] = "disposed" /\ terminal' = 0)]_vars

\* a start has timed out and the stop called after it has disposed its terminal
C11_Witness ==
  \E c \in Calls, d \in Calls :
    /\ d = c + 1
    /\ calls[c].kind = "start" /\ calls[c].error = "Timeout" /\ ~calls[c].overlapped
    /\ calls[d].kind = "stop" /\ calls[d].hadTerminal /\ calls[d].outcome = "resolved"
    /\ terminals[c] = "disposed" /\ terminal = 0 /\ ~isRunning

\* C12: the first poll whose probe reports reachable resolves the startServer
\* with cached state Running, and that start sends no probe and schedules no
\* timer afterwards: its record never changes again.
C12_FirstSuccessEndsPolling ==
  [][\A c \in Calls :
       /\ (calls[c].pc = "poll" /\ calls'[c].pc # "poll" /\ calls'[c].lastProbe = "reachable")
            => /\ calls'[c].outcome = "resolved" /\ calls'[c].pc = "done"
               /\ calls'[c].probePort = 0
               /\ isRunning'
       /\ (calls[c].kind = "start" /\ calls[c].outcome = "resolved")
            => calls'[c] = calls[c]]_vars

\* a start has resolved at its second poll, within the deadline
C12_Witness ==
  \E c \in Calls :
    /\ calls[c].kind = "start" /\ calls[c].launched /\ ~calls[c].overlapped
    /\ calls[c].outcome = "resolved" /\ calls[c].pc = "done"
    /\ calls[c].repolled /\ calls[c].elapsed <= maxStartupTime
    /\ isRunning /\ terminal = c

\* C13: a startServer never resolves on a probe result examined after more
\* than maxStartupTime has passed since its launch.
C13_DeadlineHardCap ==
  \A c \in Calls :
    ( /\ calls[c].kind = "start" /\ calls[c].launched /\ ~calls[c].overlapped
      /\ calls[c].outcome = "resolved" )
    => calls[c].elapsed <= maxStartupTime

\* C14: while the poll loop of a start is running, no call issued after the
\* loop began moves the time its deadline is measured from: the age read by its
\* deadline test never goes back. (elapsed > 0: time has passed in the loop
\* before any other call was issued, and no earlier call is in flight.)
C14_PerStartDeadline ==
  [][\A c \in Calls :
       ( /\ calls[c].pc \in {"timer", "poll"}
         /\ calls[c].elapsed > 0
         /\ \A d \in Calls : d < c => ~InFlight(d) )
       => startAge' >= startAge]_vars

\* the variables of the coordinator
coordinator == <<calls, terminal, isRunning, serverPort, startAge, terminals, sent>>

\* isServerRunning is called / returns in this step
IsServerRunningCalled ==
  query.pc # "probe" /\ query'.op = "isServerRunning" /\ query' # query
IsServerRunningReturns ==
  query.op = "isServerRunning" /\ query.pc = "probe" /\ query'.pc # "probe"

\* C15: isServerRunning sends one probe, to the stored port, and returns what
\* that probe found, whatever the cached state is; neither the call nor its
\* return changes a variable of the coordinator.
C15_IsRunningLiveQuery ==
  [][/\ IsServerRunningCalled
          => /\ query'.pc = "probe" /\ query'.probePort = serverPort
             /\ UNCHANGED coordinator
     /\ (query.op = "isServerRunning" /\ query.pc = "probe" /\ query'.pc = "probe")
          => (query'.op = query.op /\ query'.probePort = query.probePort)
     /\ IsServerRunningReturns
          => /\ query'.op = "isServerRunning" /\ query'.pc = "returned"
             /\ query'.lastProbe # "none"
             /\ query'.result = (query'.lastProbe = "reachable")
             /\ UNCHANGED coordinator]_vars

\* isServerRunning has returned false while the cached state is Running
C15_Witness ==
  /\ query.op = "isServerRunning" /\ query.pc = "returned"
  /\ query.lastProbe = "unreachable" /\ ~query.result
  /\ isRunning

\* C16: at every call, isServerRunning probes the port the serverPort setting
\* gives at that moment.
C16_ProbesConfiguredPort ==
  [][IsServerRunningCalled => query'.probePort = config.serverPort]_vars

\* C17: getServerStatus returns the cached state at once, sends no probe and
\* changes no variable of the coordinator.
C17_StatusIsCachedRead ==
  [][(query'.op = "getServerStatus" /\ query' # query)
       => /\ query.pc # "probe"
          /\ query'.pc = "returned" /\ query'.probePort = 0 /\ query'.lastProbe = "none"
          /\ query'.result = isRunning
          /\ UNCHANGED coordinator]_vars

\* getServerStatus has returned Running, the cached state, while a start is polling
C17_Witness ==
  /\ query.op = "getServerStatus" /\ query.pc = "returned"
  /\ query.result /\ isRunning
  /\ \E c \in Calls : calls[c].kind = "start" /\ calls[c].pc = "poll"

\* C18: a startServer that finds no package manager rejects without having
\* created a terminal.
C18_NoLauncherCreatesNothing ==
  \A c \in Calls :
    (calls[c].kind = "start" /\ calls[c].error = "NoLauncher") => terminals[c] = "none"

\* C19: a startServer with a custom Node.js path that fails validation rejects
\* before any launch attempt: from the call to the rejection no probe is sent,
\* no terminal is created, no command is sent, no poll is scheduled, and the
\* cached state and the owned handle are unchanged.
C19_InvalidConfig ==
  [][\A c \in Calls :
       /\ (Begins(c) /\ calls'[c].kind = "start" /\ calls'[c].nodejsPath # "")
            => /\ calls'[c].pc = "validate" /\ calls'[c].probePort = 0
               /\ UNCHANGED <<terminal, isRunning, terminals, sent, startAge>>
       /\ (Settles(c) /\ calls'[c].error = "InvalidConfig")
            => /\ calls[c].pc = "validate" /\ calls'[c].outcome = "rejected"
               /\ calls'[c].pc = "done"
               /\ calls'[c].lastProbe = "none" /\ ~calls'[c].launched
               /\ terminals'[c] = "none"
               /\ UNCHANGED <<terminal, isRunning, terminals, sent, startAge, serverPort>>]_vars

\* a start was rejected for its Node.js path while the cached state was Running
\* with an owned live terminal, and both are as before
C19_Witness ==
  \E c \in Calls :
    /\ calls[c].kind = "start" /\ calls[c].error = "InvalidConfig" /\ ~calls[c].overlapped
    /\ isRunning /\ terminal # 0 /\ terminal # c /\ terminals[terminal] = "live"
    /\ terminals[c] = "none"

\* C20: after a startServer has settled with an error, with no other call in
\* flight or issued since, the cached state is Idle.
C20_FailureEndsIdle ==
  \A c \in Calls :
    ( /\ calls[c].kind = "start" /\ calls[c].outcome = "rejected"
      /\ ~calls[c].overlapped
      /\ \A d \in Calls : d > c => ~Issued(d) )
    => ~isRunning

\* C22: the initial probe and the command line of one startServer use the same
\* port, the one the call read from the settings, whatever other starts do
\* in between.
C22_PerStartPort ==
  [][\A c \in Calls :
       (calls[c].pc = "probe" /\ calls'[c].pc = "npx")
       => calls'[c].command = calls[c].probePort]_vars

\* C24: every launch sends exactly one command line to the terminal that the
\* start created for it.
C24_OneCommandPerTerminal ==
  \A c \in Calls : calls[c].launched => sent[c] = 1

\* C29: every terminal created and not yet disposed is the one _terminal
\* refers to, so that the next stopServer disposes it.
C29_HandleReachable ==
  \A t \in Calls : terminals[t] = "live" => terminal = t

\* C30: a startServer in which a collaborator has thrown is settled.
C30_ThrowSettles ==
  \A c \in Calls : calls[c].pc = "crashed" => calls[c].outcome # "pending"

\* an event of the attempt is still to come
ProbeEventPending ==
  ENABLED (ProbeConnect \/ ProbeResponse \/ ProbeError \/ ProbeTimeout \/ ProbeTick)

\* C21: checkIfServerRunning settles exactly once with a boolean and never
\* rejects: its promise is settled as soon as a response, an error or the
\* timeout has been handled, a later event does not change it, while it is
\* pending an event is still to come no later than the timeout, and an attempt
\* on a port where nothing listens gives false.
C21_ProbeTotalAndBounded ==
  /\ [](attempt.http = "pending"
          => attempt.clock <= probeTimeout /\ ProbeEventPending)
  /\ [][LET a == attempt' IN
          /\ a.http \in {"none", "pending", "true", "false"}
          /\ (a.answered \/ a.failed \/ a.timedOut) => a.http \in {"true", "false"}
          /\ (attempt.http \in {"true", "false"} /\ a.http # attempt.http)
               => (a.http = "pending" /\ a.clock = 0 /\ ~a.answered /\ ~a.failed
                   /\ ~a.timedOut)
          /\ (a.conn = "refused" /\ a.http # "pending") => a.http = "false"]_vars

\* the timeout handler has settled the promise with false and the 'error' event
\* of the destroyed request has called resolve(false) once more
C21_Witness ==
  attempt.timedOut /\ attempt.failed /\ attempt.http = "false"

\* C25: once both revisions of the probe have settled they agree, and the
\* result is true exactly when the connection was accepted.
C25_ReachableIffAccepting ==
  (attempt.http \in {"true", "false"} /\ attempt.tcp \in {"true", "false"})
    => (attempt.http = attempt.tcp /\ (attempt.http = "true" <=> attempt.accepted))

\* folder f is a Motia project folder: it has a directory named steps, or a
\* package.json that parses to an object with a Motia dependency
IsMotiaFolder(f) ==
  \/ f.steps = "dir"
  \/ /\ f.pkg.file = "object"
     /\ \E dep \in f.pkg.dependencies \cup f.pkg.devDependencies :
          dep \in {<<"@motiadev/", "core">>, <<"", "motia">>}

\* C28: isMotiaProject returns true exactly when some folder of the workspace
\* is a Motia project folder; in particular false without folders, and a
\* package.json that cannot be used does not hide a later folder.
C28_DetectsMotiaProject ==
  detect.pc = "returned"
    => (detect.result <=> \E i \in 1 .. Len(detect.folders) :
                            IsMotiaFolder(detect.folders[i]))

\* true was returned for a later folder, after a package.json that does not parse
C28_Witness ==
  /\ detect.pc = "returned" /\ detect.result
  /\ Len(detect.folders) = 2
  /\ detect.folders[1].pkg.file = "unparseable"
  /\ detect.folders[1].steps = "file"

\* C23: once deactivate has run and its stopServer has settled, no terminal is live.
C23_TeardownReleasesTerminal ==
  (ext.deactivated /\ calls[ext.stopCall].outcome # "pending") => Live = {}

\* C26: activate calls startServer at most once, and only in a Motia project
\* with autoStartServer read as true: a startServer that begins while no
\* command is available is that one call.  In a Motia project the commands are
\* registered before the start is awaited, and once the awaited start has
\* settled, resolved or rejected, activate completes.
C26_AutoStartGating ==
  /\ [](/\ ext.autoStarts <= 1
        /\ ext.autoStarts = 1 => (ext.isMotia /\ ext.autoStartServer)
        /\ (ext.pc # "inactive" /\ ext.isMotia) => ext.registered
        /\ (ext.pc = "autostart" /\ calls[ext.autoCall].outcome # "pending")
             => ENABLED AutoStartSettled)
  /\ [][\A c \in Calls :
          (Begins(c) /\ calls'[c].kind = "start" /\ ~CommandsAvailable)
          => (ext.pc = "inactive" /\ ext'.autoStartServer /\ ext'.isMotia
              /\ ext'.autoCall = c /\ ext'.autoStarts = 1)]_vars

\* the automatic start was rejected and activate has completed with the
\* commands registered
C26_Witness ==
  /\ ext.pc = "active" /\ ext.registered /\ ext.autoStarts = 1
  /\ calls[ext.autoCall].outcome = "rejected"

\* C27: when the probe of the service menu settles, the menu offers Stop and
\* Open Workbench exactly if the probe found the server and Start exactly if it
\* did not, whatever the cached state; and openWorkbench opens the panel
\* directly exactly if its own probe found the server.
C27_MenuUsesGroundTruth ==
  [][/\ (ext.menu = "probe" /\ ext'.menu = "shown")
        => /\ {"motia.stopServer", "motia.openWorkbench"} \subseteq ext'.menuItems
                <=> query'.lastProbe = "reachable"
           /\ "motia.startServer" \in ext'.menuItems
                <=> query'.lastProbe = "unreachable"
     /\ (ext.workbench = "probe" /\ ext'.workbench # "probe")
        => (ext'.opened = "direct" <=> query'.lastProbe = "reachable")
     /\ (ext.opened # "direct" /\ ext'.opened = "direct")
        => (ext.workbench = "probe" /\ query'.lastProbe = "reachable")]_vars

\* the menu offers Start, as its probe found nothing, while the cached state
\* is Running
C27_Witness ==
  /\ ext.menu = "shown" /\ ext.menuItems = {"motia.startServer"}
  /\ query.lastProbe = "unreachable" /\ isRunning

\* C31: a startServer call is pending exactly while one of its awaits, timers
\* or probes is outstanding: it settles on every path, and once settled
\* nothing of it is scheduled.
C31_StartSettlesOnce ==
  \A c \in Calls :
    calls[c].kind = "start"
      => IF calls[c].outcome = "pending"
         THEN calls[c].pc \in {"validate", "probe", "npx", "pnpm", "yarn", "timer", "poll"}
         ELSE calls[c].pc = "done" /\ calls[c].probePort = 0

\* C32: _isRunning turns from false to true only in the step in which a probe
\* of a startServer settles as reachable, and that probe was sent to the port
\* _serverPort holds.
C32_RunningOnEvidence ==
  [][(~isRunning /\ isRunning')
       => \E c \in Calls :
            /\ calls[c].pc \in {"probe", "poll"}
            /\ calls'[c].lastProbe = "reachable" /\ calls'[c].outcome = "resolved"
            /\ calls[c].probePort = serverPort]_vars

\* C33: a poll probe is sent only when the timer of the call fires, one
\* checkInterval after it was set; the timer is set only by the launch and by
\* a poll whose probe has settled without finding the server.
C33_SequentialPolling ==
  [][\A c \in Calls :
       /\ (calls[c].pc # "poll" /\ calls'[c].pc = "poll")
            => /\ calls[c].pc = "timer" /\ calls[c].clock = checkInterval
               /\ calls'[c].clock = 0
       /\ (calls[c].pc # "timer" /\ calls'[c].pc = "timer")
            => \/ calls[c].pc \in {"probe", "npx", "pnpm", "yarn"} /\ calls'[c].launched
               \/ calls[c].pc = "poll" /\ calls'[c].lastProbe = "unreachable"
       /\ (calls[c].pc = "timer" /\ calls'[c].pc # "timer") => calls'[c].pc = "poll"]_vars

\* the second poll probe of a start is in flight, after the first has settled
C33_Witness ==
  \E c \in Calls : calls[c].pc = "poll" /\ calls[c].repolled /\ calls[c].clock > 0

\* C34: a startServer call has scheduled WorkbenchPanel.createOrShow once if
\* it was given an extensionUri and has resolved, and never otherwise.
C34_WorkbenchFollowsSuccess ==
  \A c \in Calls :
    calls[c].kind = "start"
      => calls[c].opens = IF calls[c].outcome = "resolved" /\ calls[c].extensionUri
                          THEN 1 ELSE 0

\* a start launched the server, found it by polling and scheduled the
\* workbench; another start resolved without an extensionUri
C34_Witness ==
  \E c, d \in Calls :
    /\ calls[c].launched /\ calls[c].outcome = "resolved" /\ calls[c].opens = 1
    /\ calls[d].kind = "start" /\ calls[d].outcome = "resolved" /\ ~calls[d].extensionUri

OpenPanels == {p \in Shows : panel.panels[p] = "open"}

\* C35: at most one panel is open and currentPanel refers to it; createOrShow
\* with a current panel updates that panel and creates none, without one it
\* creates the panel that becomes current; dispose leaves currentPanel undefined.
C35_PanelSingleton ==
  /\ [](/\ Cardinality(OpenPanels) <= 1
        /\ \A p \in OpenPanels : panel.currentPanel = p
        /\ panel.currentPanel # 0 => panel.panels[panel.currentPanel] = "open")
  /\ [][/\ \A k \in Shows :
             (panel.shows[k].pc = "none" /\ panel'.shows[k].pc # "none")
             => IF panel.currentPanel # 0
                THEN /\ panel'.panels = panel.panels
                     /\ panel'.currentPanel = panel.currentPanel
                     /\ panel'.shows[k].target = panel.currentPanel
                ELSE /\ panel'.panels = [panel.panels EXCEPT ![k] = "open"]
                     /\ panel'.currentPanel = k
          /\ \A p \in Shows :
             (panel.panels[p] = "open" /\ panel'.panels[p] = "disposed")
             => panel'.currentPanel = 0]_vars

\* the first panel was disposed, the second createOrShow created a new one,
\* and the third reveals it while the update of the second is still awaited
C35_Witness ==
  /\ panel.panels[1] = "disposed" /\ panel.currentPanel = 2
  /\ panel.shows[2].pc = "update" /\ panel.shows[2].created
  /\ panel.shows[3].pc = "update" /\ ~panel.shows[3].created

\* C36: once no command handler has written the indicator and the port has not
\* changed for one period of the status check and the time of its probe, the
\* indicator shows Running exactly if the port answers; and the steps of the
\* status check leave the coordinator alone.
C36_IndicatorConverges ==
  /\ [](bar.quiet > statusInterval + probeTimeout
          => (bar.indicator = "running" <=> bar.reachable))
  /\ [][bar'.pc # bar.pc => UNCHANGED coordinator]_vars

\* the port answers, nothing has happened for longer than a period of the
\* status check and its probe, and the indicator shows Running
C36_Witness ==
  /\ bar.quiet > statusInterval + probeTimeout
  /\ bar.reachable /\ bar.indicator = "running"

====
